---- MODULE Spec2Model ----
(***************************************************************************)
(* Model of the OpenRCT2 simulation tick engine:                           *)
(*   src/src/openrct2/GameState.cpp  GameState::InitAll, GameState::Tick,  *)
(*   GameState::UpdateLogic, GameState::CreateStateSnapshot.               *)
(* The build modelled is the one with ENABLE_SCRIPTING defined.            *)
(* Collaborators whose code is outside GameState.cpp (network layer, date, *)
(* random generator, action queue, input) are modelled by the state they   *)
(* expose to GameState.cpp and by the calls GameState.cpp makes on them.   *)
(***************************************************************************)
EXTENDS Integers, Sequences, FiniteSets, TLC

\* ------------------------------------------------------------------ bounds
\* Logical ticks run in total (gSavedAge) in one behaviour, and the highest
\* tick the server announces.
MaxSavedAge == 4
MaxServerTick == 2
\* The same two bounds where a client catches up with a server far ahead.
MaxCatchUpAge == 12
MaxCatchUpServerTick == 12
\* Logical ticks run in total where the game is re-initialised.
MaxReinitAge == 4
\* Game speed levels 1..MaxSpeed.
MaxSpeed == 3
\* Commands that can wait in the action queue.
MaxQueue == 1
\* Abstract calendar: ticks in a day, days in a month.
TicksPerDay == 2
DaysPerMonth == 2
\* Size of the deterministic random generator's state space.
SeedSpace == 3
\* A client following its server: save-age and server tick stay within these.
MaxFollowAge == 6
MaxFollowServerTick == 6
\* Timed pipeline calls: save-age and server tick stay within these.
MaxTimingsAge == 3
MaxTimingsServerTick == 1
\* Hint paths end in at most this many characters after directory and stem.
MaxTailLen == 4
\* Capacity of the ring of a timing record.
LOGIC_UPDATE_MEASUREMENTS_COUNT == 3
\* Readings of the wall clock, in ticks of Platform::GetTicks().
MaxWallClock == 2

\* --------------------------------------------------------------- constants
\* GameState.cpp:131  std::clamp<uint32_t>(..., 0, 10)
MaxCatchUp == 10

NETWORK_MODE_NONE == "NETWORK_MODE_NONE"
NETWORK_MODE_SERVER == "NETWORK_MODE_SERVER"
NETWORK_MODE_CLIENT == "NETWORK_MODE_CLIENT"
NETWORK_STATUS_NONE == "NETWORK_STATUS_NONE"
NETWORK_STATUS_CONNECTING == "NETWORK_STATUS_CONNECTING"
NETWORK_STATUS_CONNECTED == "NETWORK_STATUS_CONNECTED"
NetworkAuthNone == "NetworkAuth::None"
NetworkAuthOk == "NetworkAuth::Ok"
SCREEN_FLAGS_TITLE_DEMO == "SCREEN_FLAGS_TITLE_DEMO"
SCREEN_FLAGS_EDITOR == "SCREEN_FLAGS_EDITOR"
InputStateReset == "InputState::Reset"
InputStateNormal == "InputState::Normal"
InputStateWidgetPressed == "InputState::WidgetPressed"
\* gLastAutoSaveUpdate while the autosave timer waits for the next update.
AUTOSAVE_PAUSE == 0
InputStates == {InputStateReset, InputStateNormal, InputStateWidgetPressed}

VARIABLES
    gCurrentTicks,          \* tick counter
    gSavedAge,              \* save-age counter
    gGameSpeed,             \* speed level
    gGamePaused,            \* GameIsPaused()
    gDoSingleUpdate,        \* single-step request
    gScreenFlags,           \* subset of the screen flags
    gOpenRCT2Headless,
    PauseServerIfNoClients, \* gConfigNetwork.PauseServerIfNoClients
    networkMode,            \* network_get_mode()
    networkStatus,          \* network_get_status()
    networkAuth,            \* network_get_authstatus()
    serverTick,             \* network_get_server_tick()
    numPlayers,             \* network_get_num_players()
    snapshotsEnabled,       \* network_gamestate_snapshots_enabled()
    inputState,             \* InputGetState()
    viewportScrolling,      \* INPUT_FLAG_VIEWPORT_SCROLLING
    gDateMonthTicks,        \* calendar counter advanced by DateUpdate()
    dateDay,                \* _date.GetDay() of the cached _date member
    randSeed,               \* ScenarioRandState().s0
    snapshots,              \* snapshot store: sequence of linked snapshots
    actionQueue,            \* commands waiting in GameActions' queue
    gLastAutoSaveUpdate,    \* autosave timer: AUTOSAVE_PAUSE or a clock reading
    timingsCurrentIdx,      \* CurrentIdx of the caller's LogicTimings record
    importer,               \* the last park import: hint path and outcome
    log,                    \* calls made by the last operation, in order
    frame                   \* summary of the last operation

vars == << gCurrentTicks, gSavedAge, gGameSpeed, gGamePaused, gDoSingleUpdate,
           gScreenFlags, gOpenRCT2Headless, PauseServerIfNoClients,
           networkMode, networkStatus, networkAuth, serverTick, numPlayers,
           snapshotsEnabled, inputState, viewportScrolling, gDateMonthTicks,
           dateDay, randSeed, snapshots, actionQueue, gLastAutoSaveUpdate,
           timingsCurrentIdx, importer, log, frame >>

\* The mutable state as one record, the form the operators below work on.
\* Its last fields live for one operation: the calls made, the pipeline calls
\* that ran to their end and that returned early, whether the provisional
\* elements the user is placing are on the map, the steps that read the map
\* with them on it, and the updates the park-wide state received.
Cur == [ gCurrentTicks |-> gCurrentTicks, gSavedAge |-> gSavedAge,
         gGameSpeed |-> gGameSpeed, gGamePaused |-> gGamePaused,
         gDoSingleUpdate |-> gDoSingleUpdate, gScreenFlags |-> gScreenFlags,
         gOpenRCT2Headless |-> gOpenRCT2Headless,
         PauseServerIfNoClients |-> PauseServerIfNoClients,
         networkMode |-> networkMode, networkStatus |-> networkStatus,
         networkAuth |-> networkAuth, serverTick |-> serverTick,
         numPlayers |-> numPlayers, snapshotsEnabled |-> snapshotsEnabled,
         inputState |-> inputState, viewportScrolling |-> viewportScrolling,
         gDateMonthTicks |-> gDateMonthTicks, dateDay |-> dateDay,
         randSeed |-> randSeed, snapshots |-> snapshots,
         actionQueue |-> actionQueue,
         gLastAutoSaveUpdate |-> gLastAutoSaveUpdate,
         timingsCurrentIdx |-> timingsCurrentIdx,
         log |-> << >>, completed |-> 0, earlyReturns |-> 0,
         provisionalOnMap |-> TRUE, sawProvisional |-> {},
         parkUpdates |-> 0 ]

Install(r) ==
    /\ gCurrentTicks' = r.gCurrentTicks
    /\ gSavedAge' = r.gSavedAge
    /\ gGameSpeed' = r.gGameSpeed
    /\ gGamePaused' = r.gGamePaused
    /\ gDoSingleUpdate' = r.gDoSingleUpdate
    /\ gScreenFlags' = r.gScreenFlags
    /\ gOpenRCT2Headless' = r.gOpenRCT2Headless
    /\ PauseServerIfNoClients' = r.PauseServerIfNoClients
    /\ networkMode' = r.networkMode
    /\ networkStatus' = r.networkStatus
    /\ networkAuth' = r.networkAuth
    /\ serverTick' = r.serverTick
    /\ numPlayers' = r.numPlayers
    /\ snapshotsEnabled' = r.snapshotsEnabled
    /\ inputState' = r.inputState
    /\ viewportScrolling' = r.viewportScrolling
    /\ gDateMonthTicks' = r.gDateMonthTicks
    /\ dateDay' = r.dateDay
    /\ randSeed' = r.randSeed
    /\ snapshots' = r.snapshots
    /\ actionQueue' = r.actionQueue
    /\ gLastAutoSaveUpdate' = r.gLastAutoSaveUpdate
    /\ timingsCurrentIdx' = r.timingsCurrentIdx
    /\ UNCHANGED importer
    /\ log' = r.log

Emit(s, e) == [s EXCEPT !.log = Append(@, e)]

Min(a, b) == IF a <= b THEN a ELSE b

Pow2(n) == IF n <= 0 THEN 1 ELSE 2 ^ n

EmitAll(s, es) == [s EXCEPT !.log = @ \o es]

\* ------------------------------------------------------------ collaborators
\* network_update(): in client role the tick packets read here set the
\* server tick the client knows; `arrival` is the tick of the last packet.
network_update(s, arrival) ==
    LET t == Emit(s, "network_update")
    IN IF s.networkMode = NETWORK_MODE_CLIENT
       THEN [t EXCEPT !.serverTick = arrival]
       ELSE t

\* network_process_pending(): handles every inbound message still waiting.
network_process_pending(s) == Emit(s, "network_process_pending")

\* GameActions::ProcessQueue(): drains the action queue.
ProcessQueue(s) ==
    [Emit(s, "GameActions::ProcessQueue") EXCEPT !.actionQueue = 0]

\* Date(...).GetDay(): day of the month of a calendar counter, from 1.
GetDay(monthTicks) == (monthTicks \div TicksPerDay) + 1

\* DateUpdate() followed by _date = Date(gDateMonthsElapsed, gDateMonthTicks).
DateUpdate(s) ==
    LET mt == (s.gDateMonthTicks + 1) % (TicksPerDay * DaysPerMonth)
    IN [Emit(s, "DateUpdate") EXCEPT !.gDateMonthTicks = mt,
                                     !.dateDay = GetDay(mt)]

\* The seeded generator: one draw moves the seed to its successor.
ScenarioRandNext(seed) == (seed + 1) % SeedSpace

\* MapRemoveProvisionalElements(): takes the provisional elements the user
\* is placing off the map.
MapRemoveProvisionalElements(s) ==
    [Emit(s, "MapRemoveProvisionalElements") EXCEPT !.provisionalOnMap = FALSE]

\* MapRestoreProvisionalElements(): puts them back.
MapRestoreProvisionalElements(s) ==
    [Emit(s, "MapRestoreProvisionalElements") EXCEPT !.provisionalOnMap = TRUE]

\* MapUpdatePathWideFlags(): reads the map as it is when called.
MapUpdatePathWideFlags(s) ==
    [Emit(s, "MapUpdatePathWideFlags")
       EXCEPT !.sawProvisional =
                 IF s.provisionalOnMap
                 THEN @ \cup {"MapUpdatePathWideFlags"} ELSE @]

\* PeepUpdateAll(): the entity update reads the map as it is when called
\* and draws from the seeded generator.
PeepUpdateAll(s) ==
    [Emit(s, "PeepUpdateAll")
       EXCEPT !.randSeed = ScenarioRandNext(@),
              !.sawProvisional =
                 IF s.provisionalOnMap THEN @ \cup {"PeepUpdateAll"} ELSE @]

\* PauseToggle(): flips the pause state.
PauseToggle(s) == [s EXCEPT !.gGamePaused = ~@]

\* Mutant of CreateStateSnapshot: the snapshot is linked to tick 0.
CreateStateSnapshot_LinkZero(s) ==
    LET created == [captured |-> FALSE, links |-> << >>,
                    role |-> s.networkMode, reinits |-> 0]
        captured == [created EXCEPT !.captured = TRUE]
        linked == [captured EXCEPT !.links = Append(@, << 0, s.randSeed >>)]
    IN [EmitAll(s, << "CreateSnapshot", "Capture", "LinkSnapshot" >>)
          EXCEPT !.snapshots = Append(@, linked)]

\* ------------------------------------------------- GameState.cpp:401-410
CreateStateSnapshot(s) ==
    LET created == [captured |-> FALSE, links |-> << >>,
                    role |-> s.networkMode, reinits |-> 0]
        captured == [created EXCEPT !.captured = TRUE]
        linked == [captured EXCEPT
                     !.links = Append(@, << s.gCurrentTicks, s.randSeed >>)]
    IN [EmitAll(s, << "CreateSnapshot", "Capture", "LinkSnapshot" >>)
          EXCEPT !.snapshots = Append(@, linked)]

\* Mutant of AdvanceClock: the tick counter moves by two.
AdvanceClock_Twice(s) ==
    [EmitAll(s, << "gCurrentTicks++", "gSavedAge++" >>)
       EXCEPT !.gCurrentTicks = @ + 2, !.gSavedAge = @ + 1,
              !.completed = @ + 1]

\* ------------------------------------------------- GameState.cpp:381-382
\* gCurrentTicks++; gSavedAge++;
AdvanceClock(s) ==
    [EmitAll(s, << "gCurrentTicks++", "gSavedAge++" >>)
       EXCEPT !.gCurrentTicks = @ + 1, !.gSavedAge = @ + 1,
              !.completed = @ + 1]

\* Mutant of FireHooks: the day hook fires on every tick.
FireHooks_EveryTick(s, day) ==
    EmitAll(s, << "HOOK_INTERVAL_TICK", "HOOK_INTERVAL_DAY" >>)

\* ------------------------------------------------- GameState.cpp:384-393
\* day: the day stashed at line 313, before the date update.
FireHooks(s, day) ==
    LET s1 == Emit(s, "HOOK_INTERVAL_TICK")
    IN IF day # s1.dateDay THEN Emit(s1, "HOOK_INTERVAL_DAY") ELSE s1

\* Mutant of UpdateWorld: the climate is updated before the scenario.
UpdateWorld_ClimateFirst(s) ==
    EmitAll(s, << "ClimateUpdate", "ScenarioUpdate", "MapUpdateTiles" >>)

\* ------------------------------------------------- GameState.cpp:320-325
UpdateWorld(s) ==
    EmitAll(s, << "ScenarioUpdate", "ClimateUpdate", "MapUpdateTiles" >>)

\* Mutant of UpdateEntities: the provisional elements are restored after
\* the vehicle update.
UpdateEntities_RestoreLate(s) ==
    LET s1 == MapRemoveProvisionalElements(s)
        s2 == MapUpdatePathWideFlags(s1)
        s3 == PeepUpdateAll(s2)
        s4 == Emit(s3, "VehicleUpdateAll")
        s5 == MapRestoreProvisionalElements(s4)
    IN EmitAll(s5, << "UpdateAllMiscEntities", "Ride::UpdateAll" >>)

\* ------------------------------------------------- GameState.cpp:326-340
UpdateEntities(s) ==
    LET s1 == MapRemoveProvisionalElements(s)
        s2 == MapUpdatePathWideFlags(s1)
        s3 == PeepUpdateAll(s2)
        s4 == MapRestoreProvisionalElements(s3)
    IN EmitAll(s4, << "VehicleUpdateAll", "UpdateAllMiscEntities",
                      "Ride::UpdateAll" >>)

\* Mutant of ParkUpdate: the editor flag is not looked at.
ParkUpdate_Always(s) ==
    [Emit(s, "Park::Update") EXCEPT !.parkUpdates = @ + 1]

\* ------------------------------------------------- GameState.cpp:342-346
\* parkUpdates: updates the park-wide state received in this operation.
ParkUpdate(s) ==
    IF SCREEN_FLAGS_EDITOR \notin s.gScreenFlags
    THEN [Emit(s, "Park::Update") EXCEPT !.parkUpdates = @ + 1]
    ELSE s

\* ------------------------------------------------- GameState.cpp:348-363
UpdateParkServices(s) ==
    EmitAll(s, << "ResearchUpdate", "RideRatingsUpdateAll",
                  "RideMeasurementsUpdate", "News::UpdateCurrentItem",
                  "MapAnimationInvalidateAll", "VehicleSoundsUpdate",
                  "PeepUpdateCrowdNoise", "ClimateUpdateSound",
                  "EditorOpenWindowsForCurrentStep" >>)

\* Mutant of StartAutosaveTimer: the clock reading also seeds the generator.
StartAutosaveTimer_Seeds(s, now) ==
    IF s.gLastAutoSaveUpdate = AUTOSAVE_PAUSE
    THEN [s EXCEPT !.gLastAutoSaveUpdate = now,
                   !.randSeed = now % SeedSpace]
    ELSE s

\* ------------------------------------------------- GameState.cpp:369-372
\* now: the reading of Platform::GetTicks().
StartAutosaveTimer(s, now) ==
    IF s.gLastAutoSaveUpdate = AUTOSAVE_PAUSE
    THEN [s EXCEPT !.gLastAutoSaveUpdate = now]
    ELSE s

\* Mutant of DrainAndAdvance: the queue is drained after the clock advance.
DrainAndAdvance_ClockFirst(s) ==
    LET s1 == AdvanceClock(s)
        s2 == ProcessQueue(s1)
    IN Emit(network_process_pending(s2), "network_flush")

\* ------------------------------------------------- GameState.cpp:374-382
DrainAndAdvance(s) ==
    LET s1 == ProcessQueue(s)
        s2 == Emit(network_process_pending(s1), "network_flush")
    IN AdvanceClock(s2)

\* Mutant of RotateTimings: the cursor is not wrapped.
RotateTimings_NoWrap(s, timings) ==
    IF timings
    THEN [s EXCEPT !.timingsCurrentIdx = @ + 1]
    ELSE s

\* ------------------------------------------------- GameState.cpp:395-398
\* timings: the caller passed a timing record (timings != nullptr).
RotateTimings(s, timings) ==
    IF timings
    THEN [s EXCEPT !.timingsCurrentIdx =
                       (@ + 1) % LOGIC_UPDATE_MEASUREMENTS_COUNT]
    ELSE s

\* ------------------------------------------------- GameState.cpp:310-399
\* The part of UpdateLogic after the network role block. The durations
\* report_time() writes into the timing record are not modelled.
UpdateLogicBody(s, in) ==
    LET day == s.dateDay
        s1 == DateUpdate(s)
        s2 == UpdateWorld(s1)
        s3 == UpdateEntities(s2)
        s4 == ParkUpdate(s3)
        s5 == UpdateParkServices(s4)
        s6 == StartAutosaveTimer(s5, in.now)
        s7 == DrainAndAdvance(s6)
        s8 == FireHooks(s7, day)
    IN RotateTimings(s8, in.timings)

\* Mutant of ServerRoleBlock: the tick is announced before the snapshot.
ServerRoleBlock_AnnounceFirst(s) ==
    LET s1 == Emit(s, "network_send_tick")
    IN IF s1.snapshotsEnabled THEN CreateStateSnapshot(s1) ELSE s1

\* ------------------------------------------------- GameState.cpp:276-285
ServerRoleBlock(s) ==
    LET s1 == IF s.snapshotsEnabled THEN CreateStateSnapshot(s) ELSE s
    IN Emit(s1, "network_send_tick")

\* Mutant of ClientMustWait: the client never waits.
ClientMustWait_Never(s) == FALSE

\* ------------------------------------------------- GameState.cpp:289
\* The client's "don't run past the server" test.
ClientMustWait(s) == s.serverTick = s.gCurrentTicks

\* Mutant of ClientDesyncBlock: the connection status is not looked at.
ClientDesyncBlock_AnyStatus(s, desynced) ==
    LET s1 == Emit(s, "network_check_desynchronisation")
    IN IF desynced /\ s1.snapshotsEnabled
       THEN Emit(CreateStateSnapshot(s1), "network_request_gamestate_snapshot")
       ELSE s1

\* ------------------------------------------------- GameState.cpp:294-307
ClientDesyncBlock(s, desynced) ==
    LET s1 == Emit(s, "network_check_desynchronisation")
    IN IF /\ desynced
          /\ s1.snapshotsEnabled
          /\ s1.networkStatus = NETWORK_STATUS_CONNECTED
       THEN Emit(CreateStateSnapshot(s1), "network_request_gamestate_snapshot")
       ELSE s1

\* ------------------------------------------------- GameState.cpp:254-399
\* One pipeline call. in.arrival: server tick read by network_update();
\* in.desynced: result of network_check_desynchronisation(); in.timings:
\* a timing record is passed; in.now: reading of the wall clock.
UpdateLogic(s, in) ==
    LET s0 == network_update(Emit(s, "UpdateLogic"), in.arrival)
    IN IF s0.networkMode = NETWORK_MODE_SERVER
       THEN UpdateLogicBody(ServerRoleBlock(s0), in)
       ELSE IF s0.networkMode = NETWORK_MODE_CLIENT
       THEN IF ClientMustWait(s0)
            THEN [Emit(s0, "return") EXCEPT !.earlyReturns = @ + 1]
            ELSE UpdateLogicBody(ClientDesyncBlock(s0, in.desynced), in)
       ELSE UpdateLogicBody(s0, in)

\* Mutants of TickNumUpdates: the catch-up difference taken without the
\* clamp to 10; the speed shift taken by gGameSpeed instead of gGameSpeed - 1.
TickNumUpdates_NoClamp(s) ==
    IF /\ s.networkMode = NETWORK_MODE_CLIENT
       /\ s.networkStatus = NETWORK_STATUS_CONNECTED
       /\ s.networkAuth = NetworkAuthOk
    THEN IF s.serverTick >= s.gCurrentTicks
         THEN s.serverTick - s.gCurrentTicks
         ELSE MaxCatchUp
    ELSE IF s.gGameSpeed > 1
         THEN Pow2(s.gGameSpeed - 1)
         ELSE 1

TickNumUpdates_ShiftBySpeed(s) ==
    IF /\ s.networkMode = NETWORK_MODE_CLIENT
       /\ s.networkStatus = NETWORK_STATUS_CONNECTED
       /\ s.networkAuth = NetworkAuthOk
    THEN IF s.serverTick >= s.gCurrentTicks
         THEN Min(s.serverTick - s.gCurrentTicks, MaxCatchUp)
         ELSE MaxCatchUp
    ELSE IF s.gGameSpeed > 1
         THEN Pow2(s.gGameSpeed)
         ELSE 1

\* ------------------------------------------------- GameState.cpp:128-141
\* numUpdates before pause handling. The client difference is taken in
\* uint32_t: when the server tick is below the local tick it wraps to
\* 2^32 - (local - server), which is above 10 for every tick of the model.
TickNumUpdates(s) ==
    IF /\ s.networkMode = NETWORK_MODE_CLIENT
       /\ s.networkStatus = NETWORK_STATUS_CONNECTED
       /\ s.networkAuth = NetworkAuthOk
    THEN IF s.serverTick >= s.gCurrentTicks
         THEN Min(s.serverTick - s.gCurrentTicks, MaxCatchUp)
         ELSE MaxCatchUp
    ELSE IF s.gGameSpeed > 1
         THEN Pow2(s.gGameSpeed - 1)
         ELSE 1

\* Mutant of TickIsPaused: only the explicit pause counts.
TickIsPaused_ExplicitOnly(s) == s.gGamePaused

\* ------------------------------------------------- GameState.cpp:143-151
TickIsPaused(s) ==
    \/ s.gGamePaused
    \/ /\ s.networkMode = NETWORK_MODE_SERVER
       /\ s.PauseServerIfNoClients
       /\ s.gOpenRCT2Headless
       /\ s.numPlayers = 1

\* ------------------------------------------------- GameState.cpp:156
TickTakesSingleFrame(s) ==
    s.gDoSingleUpdate /\ s.networkMode = NETWORK_MODE_NONE

\* Mutant of TickPausedNoUpdate: the action queue is not drained.
TickPausedNoUpdate_NoDrain(s) ==
    LET s1 == IF s.networkMode = NETWORK_MODE_SERVER
              THEN Emit(s, "network_send_tick") ELSE s
        s2 == Emit(s1, "MapAnimationInvalidateAll")
    IN network_process_pending(s2)

\* Mutant of TickPausedNoUpdate: a paused server does not announce its tick.
TickPausedNoUpdate_NoAnnounce(s) ==
    LET s2 == Emit(s, "MapAnimationInvalidateAll")
    IN ProcessQueue(network_process_pending(s2))

\* ------------------------------------------------- GameState.cpp:164-182
\* The paused branch that runs no update.
TickPausedNoUpdate(s) ==
    LET s1 == IF s.networkMode = NETWORK_MODE_SERVER
              THEN Emit(s, "network_send_tick") ELSE s
        s2 == Emit(s1, "MapAnimationInvalidateAll")
    IN ProcessQueue(network_process_pending(s2))

\* Mutant of TickLoopExit: the early exit applies at every speed level.
TickLoopExit_AnySpeed(s) ==
    IF s.inputState \in {InputStateReset, InputStateNormal}
    THEN IF s.viewportScrolling THEN "break_clear" ELSE "continue"
    ELSE "break"

\* ------------------------------------------------- GameState.cpp:190-204
\* After an update of the batch: "go on", "break", or "break and clear the
\* scrolling flag".
TickLoopExit(s) ==
    IF s.gGameSpeed = 1
    THEN IF s.inputState \in {InputStateReset, InputStateNormal}
         THEN IF s.viewportScrolling THEN "break_clear" ELSE "continue"
         ELSE "break"
    ELSE "continue"

\* Inputs of the i-th pipeline call of a frame (i from 1).
CallInput(s, in, i) ==
    [arrival |-> IF in.bumpAt = i
                 THEN Min(s.serverTick + 1, in.maxServerTick)
                 ELSE s.serverTick,
     desynced |-> (in.desyncAt = i),
     timings |-> FALSE,
     now |-> in.now]

\* ------------------------------------------------- GameState.cpp:186-205
RECURSIVE TickLoop(_, _, _, _)
TickLoop(s, i, numUpdates, in) ==
    IF i >= numUpdates
    THEN s
    ELSE LET s1 == UpdateLogic(s, CallInput(s, in, i + 1))
             exit == TickLoopExit(s1)
         IN IF exit = "continue"
            THEN TickLoop(s1, i + 1, numUpdates, in)
            ELSE IF exit = "break_clear"
            THEN [s1 EXCEPT !.viewportScrolling = FALSE]
            ELSE s1

\* Mutant of TickRestorePause: the title-demo screen is not exempted.
TickRestorePause_Always(s, didRunSingleFrame) ==
    IF didRunSingleFrame /\ ~s.gGamePaused
    THEN PauseToggle(s)
    ELSE s

\* ------------------------------------------------- GameState.cpp:245-248
TickRestorePause(s, didRunSingleFrame) ==
    IF /\ didRunSingleFrame
       /\ ~s.gGamePaused
       /\ SCREEN_FLAGS_TITLE_DEMO \notin s.gScreenFlags
    THEN PauseToggle(s)
    ELSE s

\* ------------------------------------------------- GameState.cpp:207-243
\* Of the screen flags that skip the autosave check only the title demo is
\* part of gScreenFlags here; the map flashing flags are presentation only.
TickAfterLoop(s) ==
    LET s1 == Emit(s, "network_flush")
        s2 == IF ~s1.gOpenRCT2Headless
              THEN [EmitAll(s1, << "ContextUpdateMapTooltip",
                                   "ContextHandleInput" >>)
                      EXCEPT !.viewportScrolling = FALSE]
              ELSE s1
        s3 == IF SCREEN_FLAGS_TITLE_DEMO \notin s2.gScreenFlags
              THEN Emit(s2, "ScenarioAutosaveCheck") ELSE s2
    IN Emit(s3, "WindowDispatchUpdateAll")

\* Mutant of TickClearSingleUpdate: the request is kept.
TickClearSingleUpdate_Keep(s) == s

\* ------------------------------------------------- GameState.cpp:250
TickClearSingleUpdate(s) == [s EXCEPT !.gDoSingleUpdate = FALSE]

\* ------------------------------------------------- GameState.cpp:104-252
\* One Frame Driver call. in.arrival: server tick read by the
\* network_update() of line 126; in.bumpAt: the pipeline call of the batch
\* whose network_update() reads a tick packet (0: none); in.desyncAt: the
\* pipeline call whose desynchronisation check fails (0: none).
Tick(s, in) ==
    LET s0 == network_update(
                  EmitAll(s, << "Tick", "ScreenshotCheck",
                                "GameHandleKeyboardInput" >>), in.arrival)
        requested == TickNumUpdates(s0)
        isPaused == TickIsPaused(s0)
        didRunSingleFrame == isPaused /\ TickTakesSingleFrame(s0)
        numUpdates == IF isPaused
                      THEN (IF didRunSingleFrame THEN 1 ELSE 0)
                      ELSE requested
        s1 == IF isPaused
              THEN IF didRunSingleFrame
                   THEN PauseToggle(s0)
                   ELSE TickPausedNoUpdate(s0)
              ELSE s0
        s2 == TickLoop(s1, 0, numUpdates, in)
        s3 == TickRestorePause(TickAfterLoop(s2), didRunSingleFrame)
    IN [s |-> TickClearSingleUpdate(s3),
        atDecision |-> s0,
        requested |-> requested,
        isPaused |-> isPaused,
        didRunSingleFrame |-> didRunSingleFrame,
        numUpdates |-> numUpdates]

\* ------------------------------------------------- GameState.cpp:59-96
\* The snapshot store is not touched; the field reinits of a snapshot is
\* history only: it counts the re-initialisations since the snapshot.
InitAllOp(s) ==
    [EmitAll(s, << "InitAll", "DateReset" >>)
       EXCEPT !.gCurrentTicks = 0, !.gDateMonthTicks = 0,
              !.snapshots = [i \in 1..Len(@) |->
                               [@[i] EXCEPT !.reinits = @ + 1]]]

\* ========================================================= ParkImporter.cpp
\* String::ToStd(): the characters of a C string; none for a null pointer.
ToStd(str_c) == IF str_c.isNull THEN << >> ELSE str_c.chars

\* Lower case of an ASCII character.
ToLower(ch) ==
    CASE ch = "S" -> "s"
      [] ch = "C" -> "c"
      [] ch = "V" -> "v"
      [] OTHER -> ch

\* String::Equals(a, b, ignoreCase).
Equals(a, b, ignoreCase) ==
    /\ Len(a) = Len(b)
    /\ \A i \in DOMAIN a :
          IF ignoreCase THEN ToLower(a[i]) = ToLower(b[i]) ELSE a[i] = b[i]

\* Position of the last occurrence of ch in str, 0 if there is none.
LastIndexOf(str, ch) ==
    IF \E i \in DOMAIN str : str[i] = ch
    THEN CHOOSE i \in DOMAIN str :
            str[i] = ch /\ \A j \in (i + 1)..Len(str) : str[j] # ch
    ELSE 0

\* Path::GetFileName(): what follows the last directory separator.
GetFileName(path) ==
    SubSeq(path, LastIndexOf(path, "/") + 1, Len(path))

\* Path::GetExtension(): the file name from its last dot on, the empty
\* string if it has no dot.
GetExtension(path) ==
    LET fileName == GetFileName(path)
        dot == LastIndexOf(fileName, ".")
    IN IF dot = 0 THEN << >> ELSE SubSeq(fileName, dot, Len(fileName))

\* ------------------------------------------------ ParkImporter.cpp:43-47
ExtensionIsRCT1(extension) ==
    \/ Equals(extension, << ".", "s", "c", "4" >>, TRUE)
    \/ Equals(extension, << ".", "s", "v", "4" >>, TRUE)

\* ------------------------------------------------ ParkImporter.cpp:49-53
ExtensionIsScenario(extension) ==
    \/ Equals(extension, << ".", "s", "c", "4" >>, TRUE)
    \/ Equals(extension, << ".", "s", "c", "6" >>, TRUE)

\* ------------------------------------------------ ParkImporter.cpp:27-41
\* The importer ParkImporter::Create() makes for a hint path.
Create(hintPath) ==
    LET extension == GetExtension(hintPath)
    IN IF ExtensionIsRCT1(extension) THEN "CreateS4" ELSE "CreateS6"

\* ------------------------------------------------ ParkImporter.cpp:56-66
\* The importer made and the isScenario passed to its LoadFromStream().
park_importer_load_from_stream(hintPath_c) ==
    LET hintPath == ToStd(hintPath_c)
        isScenario == ExtensionIsScenario(hintPath)
    IN [parkImporter |-> Create(hintPath), isScenario |-> isScenario]

\* No park has been imported.
NoImport == [hintPath_c |-> [isNull |-> TRUE, chars |-> << >>],
             loaded |-> FALSE]

\* ------------------------------------------------------------------- Init
\* Configurations of a run without snapshots: desktop play, headless server
\* with and without the pause option, scenario editor, title demo.
Configurations ==
    { [headless |-> FALSE, pauseIfNoClients |-> FALSE, snapshots |-> FALSE,
       flags |-> {}],
      [headless |-> TRUE, pauseIfNoClients |-> TRUE, snapshots |-> FALSE,
       flags |-> {}],
      [headless |-> TRUE, pauseIfNoClients |-> FALSE, snapshots |-> FALSE,
       flags |-> {}],
      [headless |-> FALSE, pauseIfNoClients |-> TRUE, snapshots |-> FALSE,
       flags |-> {SCREEN_FLAGS_EDITOR}],
      [headless |-> FALSE, pauseIfNoClients |-> FALSE, snapshots |-> FALSE,
       flags |-> {SCREEN_FLAGS_TITLE_DEMO}] }

\* Configurations with snapshots: desktop play, scenario editor.
SnapshotConfigurations ==
    { [headless |-> FALSE, pauseIfNoClients |-> FALSE, snapshots |-> TRUE,
       flags |-> {}],
      [headless |-> FALSE, pauseIfNoClients |-> FALSE, snapshots |-> TRUE,
       flags |-> {SCREEN_FLAGS_EDITOR}] }

\* What every run starts with, whatever its configuration and role.
InitCommon ==
    /\ gCurrentTicks = 0
    /\ gSavedAge = 0
    /\ gGameSpeed = 1
    /\ gGamePaused = FALSE
    /\ gDoSingleUpdate = FALSE
    /\ serverTick = 0
    /\ numPlayers = 1
    /\ inputState = InputStateReset
    /\ viewportScrolling = FALSE
    /\ gDateMonthTicks = 0
    /\ dateDay = GetDay(0)
    /\ randSeed = 0
    /\ snapshots = << >>
    /\ actionQueue = 0
    /\ gLastAutoSaveUpdate = AUTOSAVE_PAUSE
    /\ timingsCurrentIdx = 0
    /\ log = << >>
    /\ frame = [op |-> "Init"]

InitConfig(c) ==
    /\ gScreenFlags = c.flags
    /\ gOpenRCT2Headless = c.headless
    /\ PauseServerIfNoClients = c.pauseIfNoClients
    /\ snapshotsEnabled = c.snapshots

\* State after construction: no network session.
Init ==
    /\ InitCommon
    /\ importer = NoImport
    /\ \E c \in Configurations : InitConfig(c)
    /\ networkMode = NETWORK_MODE_NONE
    /\ networkStatus = NETWORK_STATUS_NONE
    /\ networkAuth = NetworkAuthNone

\* The same, with the snapshot option on or off.
InitAny ==
    /\ InitCommon
    /\ importer = NoImport
    /\ \E c \in Configurations \cup SnapshotConfigurations : InitConfig(c)
    /\ networkMode = NETWORK_MODE_NONE
    /\ networkStatus = NETWORK_STATUS_NONE
    /\ networkAuth = NetworkAuthNone

\* ---------------------------------------------------------------- actions
\* Server ticks a tick packet can carry to a client: the same tick, the
\* next one, one far ahead, or a lower one after the server changed map.
Arrivals(maxServerTick) ==
    IF networkMode = NETWORK_MODE_CLIENT
    THEN {serverTick, Min(serverTick + 1, maxServerTick), maxServerTick, 0}
    ELSE {serverTick}

\* Server ticks a tick packet can carry while the server does not change
\* map: the same tick, the next one, one far ahead.
ArrivalsUp(maxServerTick) ==
    {serverTick, Min(serverTick + 1, maxServerTick), maxServerTick}

\* Outcomes of network_check_desynchronisation() worth telling apart.
Desyncs ==
    IF networkMode = NETWORK_MODE_CLIENT THEN BOOLEAN ELSE {FALSE}

\* Readings of the wall clock told apart: the earliest and the latest.
WallClock == {1, MaxWallClock}

\* GameState::Tick() with a tick packet from the given set, within the
\* given bounds. The pipeline calls of a frame read the clock at its latest.
TickFrom(arrivals, maxAge, maxServerTick, bumps) ==
    \E arrival \in arrivals, bumpAt \in bumps, desynced \in Desyncs :
        LET in == [arrival |-> arrival, bumpAt |-> bumpAt,
                   desyncAt |-> IF desynced THEN 1 ELSE 0,
                   maxServerTick |-> maxServerTick,
                   now |-> MaxWallClock]
        IN \E r \in {Tick(Cur, in)} :
              /\ gSavedAge + r.numUpdates <= maxAge
              /\ Install(r.s)
              /\ frame' = [op |-> "Tick", pre |-> r.atDecision,
                           requested |-> r.requested,
                           isPaused |-> r.isPaused,
                           didRunSingleFrame |-> r.didRunSingleFrame,
                           numUpdates |-> r.numUpdates,
                           completed |-> r.s.completed,
                           earlyReturns |-> r.s.earlyReturns,
                           provisionalOnMap |-> r.s.provisionalOnMap,
                           sawProvisional |-> r.s.sawProvisional,
                           parkUpdates |-> r.s.parkUpdates]

\* GameState::Tick(), within the given bounds.
TickWithin(maxAge, maxServerTick, bumps) ==
    TickFrom(Arrivals(maxServerTick), maxAge, maxServerTick, bumps)

TickAction == TickWithin(MaxSavedAge, MaxServerTick, {0})

\* GameState::UpdateLogic() called on its own, with or without a timing
\* record and with a clock reading from the given sets, within the given
\* bounds. frame.desynced: the desynchronisation check ran and failed.
UpdateLogicFrom(maxAge, maxServerTick, records, clocks) ==
    \E arrival \in Arrivals(maxServerTick), desynced \in Desyncs,
       timings \in records, now \in clocks :
        LET in == [arrival |-> arrival, desynced |-> desynced,
                   timings |-> timings, now |-> now]
        IN /\ gSavedAge < maxAge
           /\ \E r \in {UpdateLogic(Cur, in)} :
                 /\ Install(r)
                 /\ frame' = [op |-> "UpdateLogic",
                              pre |-> network_update(Cur, arrival),
                              desynced |->
                                /\ desynced
                                /\ \E i \in DOMAIN r.log :
                                     r.log[i] =
                                       "network_check_desynchronisation",
                              timings |-> timings,
                              completed |-> r.completed,
                              earlyReturns |-> r.earlyReturns,
                              provisionalOnMap |-> r.provisionalOnMap,
                              sawProvisional |-> r.sawProvisional,
                              parkUpdates |-> r.parkUpdates]

\* The same without a timing record.
UpdateLogicWithin(maxAge, maxServerTick) ==
    UpdateLogicFrom(maxAge, maxServerTick, {FALSE}, {MaxWallClock})

UpdateLogicAction == UpdateLogicWithin(MaxSavedAge, MaxServerTick)

\* What the environment's steps do to the record of the last operation.
EnvFrame ==
    /\ log' = << >>
    /\ frame' = [op |-> "Env"]

\* The user pauses or resumes the game.
UserPauseToggle ==
    /\ gGamePaused' = ~gGamePaused
    /\ EnvFrame
    /\ UNCHANGED << gCurrentTicks, gSavedAge, gGameSpeed, gDoSingleUpdate,
                    gScreenFlags, gOpenRCT2Headless, PauseServerIfNoClients,
                    networkMode, networkStatus, networkAuth, serverTick,
                    numPlayers, snapshotsEnabled, inputState,
                    viewportScrolling, gDateMonthTicks, dateDay, randSeed,
                    snapshots, actionQueue,
                    gLastAutoSaveUpdate, timingsCurrentIdx, importer >>

\* The user changes the game speed.
SetGameSpeed ==
    /\ \E sp \in 1..MaxSpeed : sp # gGameSpeed /\ gGameSpeed' = sp
    /\ EnvFrame
    /\ UNCHANGED << gCurrentTicks, gSavedAge, gGamePaused, gDoSingleUpdate,
                    gScreenFlags, gOpenRCT2Headless, PauseServerIfNoClients,
                    networkMode, networkStatus, networkAuth, serverTick,
                    numPlayers, snapshotsEnabled, inputState,
                    viewportScrolling, gDateMonthTicks, dateDay, randSeed,
                    snapshots, actionQueue,
                    gLastAutoSaveUpdate, timingsCurrentIdx, importer >>

\* The user asks for a single step.
RequestSingleUpdate ==
    /\ ~gDoSingleUpdate
    /\ gDoSingleUpdate' = TRUE
    /\ EnvFrame
    /\ UNCHANGED << gCurrentTicks, gSavedAge, gGameSpeed, gGamePaused,
                    gScreenFlags, gOpenRCT2Headless, PauseServerIfNoClients,
                    networkMode, networkStatus, networkAuth, serverTick,
                    numPlayers, snapshotsEnabled, inputState,
                    viewportScrolling, gDateMonthTicks, dateDay, randSeed,
                    snapshots, actionQueue,
                    gLastAutoSaveUpdate, timingsCurrentIdx, importer >>

\* Input handling moves the input state to one of the given states.
SetInputTo(states) ==
    /\ \E st \in states : st # inputState /\ inputState' = st
    /\ EnvFrame
    /\ UNCHANGED << gCurrentTicks, gSavedAge, gGameSpeed, gGamePaused,
                    gDoSingleUpdate, gScreenFlags, gOpenRCT2Headless,
                    PauseServerIfNoClients, networkMode, networkStatus,
                    networkAuth, serverTick, numPlayers, snapshotsEnabled,
                    viewportScrolling, gDateMonthTicks, dateDay, randSeed,
                    snapshots, actionQueue,
                    gLastAutoSaveUpdate, timingsCurrentIdx, importer >>

SetInput == SetInputTo({InputStateReset, InputStateWidgetPressed})

\* The viewport starts scrolling while the input state is idle.
StartViewportScrolling ==
    /\ ~viewportScrolling
    /\ inputState \in {InputStateReset, InputStateNormal}
    /\ viewportScrolling' = TRUE
    /\ EnvFrame
    /\ UNCHANGED << gCurrentTicks, gSavedAge, gGameSpeed, gGamePaused,
                    gDoSingleUpdate, gScreenFlags, gOpenRCT2Headless,
                    PauseServerIfNoClients, networkMode, networkStatus,
                    networkAuth, serverTick, numPlayers, snapshotsEnabled,
                    inputState, gDateMonthTicks, dateDay, randSeed,
                    snapshots, actionQueue,
                    gLastAutoSaveUpdate, timingsCurrentIdx, importer >>

\* What a change of the network session leaves alone.
NetworkFrame ==
    /\ EnvFrame
    /\ UNCHANGED << gCurrentTicks, gSavedAge, gGameSpeed, gGamePaused,
                    gDoSingleUpdate, gScreenFlags, gOpenRCT2Headless,
                    PauseServerIfNoClients, snapshotsEnabled, inputState,
                    viewportScrolling, gDateMonthTicks, dateDay, randSeed,
                    snapshots, actionQueue,
                    gLastAutoSaveUpdate, timingsCurrentIdx, importer >>

\* This instance starts hosting.
NetworkBeginServer ==
    /\ networkMode = NETWORK_MODE_NONE
    /\ networkMode' = NETWORK_MODE_SERVER
    /\ UNCHANGED << networkStatus, networkAuth, numPlayers, serverTick >>
    /\ NetworkFrame

\* This instance starts joining a server.
NetworkBeginClient ==
    /\ networkMode = NETWORK_MODE_NONE
    /\ networkMode' = NETWORK_MODE_CLIENT
    /\ networkStatus' = NETWORK_STATUS_CONNECTING
    /\ UNCHANGED << networkAuth, numPlayers, serverTick >>
    /\ NetworkFrame

\* The connection to the server is established.
NetworkConnected ==
    /\ networkMode = NETWORK_MODE_CLIENT
    /\ networkStatus = NETWORK_STATUS_CONNECTING
    /\ networkStatus' = NETWORK_STATUS_CONNECTED
    /\ UNCHANGED << networkMode, networkAuth, numPlayers, serverTick >>
    /\ NetworkFrame

\* The server accepts the client.
NetworkAuthenticated ==
    /\ networkMode = NETWORK_MODE_CLIENT
    /\ networkStatus = NETWORK_STATUS_CONNECTED
    /\ networkAuth = NetworkAuthNone
    /\ networkAuth' = NetworkAuthOk
    /\ UNCHANGED << networkMode, networkStatus, numPlayers, serverTick >>
    /\ NetworkFrame

\* A second player joins the server, or leaves it.
NetworkPlayers ==
    /\ networkMode = NETWORK_MODE_SERVER
    /\ numPlayers' = 3 - numPlayers
    /\ UNCHANGED << networkMode, networkStatus, networkAuth, serverTick >>
    /\ NetworkFrame

\* The network session ends.
NetworkClose ==
    /\ networkMode # NETWORK_MODE_NONE
    /\ networkMode' = NETWORK_MODE_NONE
    /\ networkStatus' = NETWORK_STATUS_NONE
    /\ networkAuth' = NetworkAuthNone
    /\ numPlayers' = 1
    /\ serverTick' = 0
    /\ NetworkFrame

\* The periodic autosave has saved the game: its timer waits for the next
\* update of the game.
GameAutosave ==
    /\ gLastAutoSaveUpdate # AUTOSAVE_PAUSE
    /\ gLastAutoSaveUpdate' = AUTOSAVE_PAUSE
    /\ EnvFrame
    /\ UNCHANGED << gCurrentTicks, gSavedAge, gGameSpeed, gGamePaused,
                    gDoSingleUpdate, gScreenFlags, gOpenRCT2Headless,
                    PauseServerIfNoClients, networkMode, networkStatus,
                    networkAuth, serverTick, numPlayers, snapshotsEnabled,
                    inputState, viewportScrolling, gDateMonthTicks, dateDay,
                    randSeed, snapshots, actionQueue, timingsCurrentIdx,
                    importer >>

\* A command is queued for the next drain.
Enqueue ==
    /\ actionQueue < MaxQueue
    /\ actionQueue' = actionQueue + 1
    /\ EnvFrame
    /\ UNCHANGED << gCurrentTicks, gSavedAge, gGameSpeed, gGamePaused,
                    gDoSingleUpdate, gScreenFlags, gOpenRCT2Headless,
                    PauseServerIfNoClients, networkMode, networkStatus,
                    networkAuth, serverTick, numPlayers, snapshotsEnabled,
                    inputState, viewportScrolling, gDateMonthTicks, dateDay,
                    randSeed, snapshots, gLastAutoSaveUpdate,
                    timingsCurrentIdx, importer >>

Next ==
    \/ TickAction
    \/ UserPauseToggle
    \/ SetGameSpeed
    \/ RequestSingleUpdate
    \/ SetInput
    \/ StartViewportScrolling
    \/ NetworkBeginServer
    \/ NetworkBeginClient
    \/ NetworkConnected
    \/ NetworkAuthenticated
    \/ NetworkPlayers
    \/ NetworkClose
    \/ Enqueue

Spec == Init /\ [][Next]_vars

\* ------------------------------------------ pipeline calls (SpecPipeline)
\* The pipeline called on its own, in every role.
NextPipeline ==
    \/ UpdateLogicAction
    \/ NetworkBeginServer
    \/ NetworkBeginClient
    \/ NetworkConnected
    \/ NetworkAuthenticated
    \/ NetworkClose
    \/ Enqueue
    \/ UserPauseToggle

SpecPipeline == InitAny /\ [][NextPipeline]_vars

\* -------------------------------------------- client catching up (SpecCatchUp)
\* A connected, authenticated desktop client and a server far ahead.
InitCatchUp ==
    /\ InitCommon
    /\ importer = NoImport
    /\ InitConfig([headless |-> FALSE, pauseIfNoClients |-> FALSE,
                   snapshots |-> FALSE, flags |-> {}])
    /\ networkMode = NETWORK_MODE_CLIENT
    /\ networkStatus = NETWORK_STATUS_CONNECTED
    /\ networkAuth = NetworkAuthOk

CatchUpTick == TickWithin(MaxCatchUpAge, MaxCatchUpServerTick, {0, 2})

CatchUpInput == SetInputTo(InputStates)

NextCatchUp ==
    \/ CatchUpTick
    \/ CatchUpInput
    \/ StartViewportScrolling
    \/ SetGameSpeed
    \/ UserPauseToggle

SpecCatchUp == InitCatchUp /\ [][NextCatchUp]_vars

\* ---------------------------------- client following a server (SpecFollow)
\* A desktop client that has just joined: local tick and server tick are
\* equal, the connection is not yet established.
InitFollow ==
    /\ InitCommon
    /\ importer = NoImport
    /\ InitConfig([headless |-> FALSE, pauseIfNoClients |-> FALSE,
                   snapshots |-> FALSE, flags |-> {}])
    /\ networkMode = NETWORK_MODE_CLIENT
    /\ networkStatus = NETWORK_STATUS_CONNECTING
    /\ networkAuth = NetworkAuthNone

\* Frame Driver calls while the server tick only moves up, between the
\* calls and during the first or second tick of a call.
FollowTick ==
    TickFrom(ArrivalsUp(MaxFollowServerTick), MaxFollowAge,
             MaxFollowServerTick, {0, 1, 2})

NextFollow ==
    \/ FollowTick
    \/ NetworkConnected
    \/ NetworkAuthenticated
    \/ SetGameSpeed
    \/ UserPauseToggle
    \/ SetInput

SpecFollow == InitFollow /\ [][NextFollow]_vars

\* ------------------------------------- timed pipeline calls (SpecTimings)
\* Desktop play, the pipeline called with and without a timing record.
InitTimings ==
    /\ InitCommon
    /\ importer = NoImport
    /\ InitConfig([headless |-> FALSE, pauseIfNoClients |-> FALSE,
                   snapshots |-> FALSE, flags |-> {}])
    /\ networkMode = NETWORK_MODE_NONE
    /\ networkStatus = NETWORK_STATUS_NONE
    /\ networkAuth = NetworkAuthNone

TimedUpdateLogic ==
    UpdateLogicFrom(MaxTimingsAge, MaxTimingsServerTick, BOOLEAN, WallClock)

NextTimings ==
    \/ TimedUpdateLogic
    \/ GameAutosave
    \/ NetworkBeginClient
    \/ NetworkClose
    \/ Enqueue

SpecTimings == InitTimings /\ [][NextTimings]_vars

\* ----------------------------------------------- park import (SpecImporter)
\* Characters of the tail of a hint path.
TailChars == {".", "s", "S", "c", "v", "4", "6"}

\* Hint paths: no directory, a directory, or a directory with a scenario
\* extension of its own; no stem or a stem; then any tail.
HintPaths ==
    { dir \o stem \o tail :
        dir \in { << >>, << "d", "/" >>, << "d", ".", "s", "c", "6", "/" >> },
        stem \in { << >>, << "a" >> },
        tail \in UNION { [1..n -> TailChars] : n \in 0..MaxTailLen } }

\* The C strings passed as hint path: a null pointer or a path.
HintPathArguments ==
    { [isNull |-> TRUE, chars |-> << >>] }
    \cup { [isNull |-> FALSE, chars |-> h] : h \in HintPaths }

\* A game before its first tick is about to import a park.
InitImporter ==
    /\ InitCommon
    /\ InitConfig([headless |-> FALSE, pauseIfNoClients |-> FALSE,
                   snapshots |-> FALSE, flags |-> {}])
    /\ networkMode = NETWORK_MODE_NONE
    /\ networkStatus = NETWORK_STATUS_NONE
    /\ networkAuth = NetworkAuthNone
    /\ \E h \in HintPathArguments :
          importer = [hintPath_c |-> h, loaded |-> FALSE]

\* park_importer_load_from_stream() with the hint path.
LoadFromStream ==
    /\ ~importer.loaded
    /\ LET r == park_importer_load_from_stream(importer.hintPath_c)
       IN importer' = [hintPath_c |-> importer.hintPath_c, loaded |-> TRUE,
                       parkImporter |-> r.parkImporter,
                       isScenario |-> r.isScenario]
    /\ UNCHANGED << gCurrentTicks, gSavedAge, gGameSpeed, gGamePaused,
                    gDoSingleUpdate, gScreenFlags, gOpenRCT2Headless,
                    PauseServerIfNoClients, networkMode, networkStatus,
                    networkAuth, serverTick, numPlayers, snapshotsEnabled,
                    inputState, viewportScrolling, gDateMonthTicks, dateDay,
                    randSeed, snapshots, actionQueue, gLastAutoSaveUpdate,
                    timingsCurrentIdx, log, frame >>

NextImporter == LoadFromStream

SpecImporter == InitImporter /\ [][NextImporter]_vars

\* ------------------------------------------- re-initialisation (SpecReinit)
\* Desktop play with the snapshot option on or off.
InitReinit ==
    /\ InitCommon
    /\ importer = NoImport
    /\ \E c \in {d \in Configurations \cup SnapshotConfigurations :
                    ~d.headless /\ d.flags = {}} : InitConfig(c)
    /\ networkMode = NETWORK_MODE_NONE
    /\ networkStatus = NETWORK_STATUS_NONE
    /\ networkAuth = NetworkAuthNone

\* GameState::InitAll(), once the game has run: before the first tick it
\* changes nothing of this state.
InitAllAction ==
    /\ gCurrentTicks > 0
    /\ \E r \in {InitAllOp(Cur)} : Install(r)
    /\ frame' = [op |-> "InitAll", pre |-> Cur]

ReinitTick == TickWithin(MaxReinitAge, MaxServerTick, {0})

ReinitUpdateLogic == UpdateLogicWithin(MaxReinitAge, MaxServerTick)

NextReinit ==
    \/ ReinitTick
    \/ ReinitUpdateLogic
    \/ InitAllAction
    \/ NetworkBeginServer
    \/ NetworkBeginClient
    \/ NetworkClose
    \/ SetGameSpeed
    \/ UserPauseToggle

SpecReinit == InitReinit /\ [][NextReinit]_vars

\* ================================================================= claims
ConnectedClient(s) ==
    /\ s.networkMode = NETWORK_MODE_CLIENT
    /\ s.networkStatus = NETWORK_STATUS_CONNECTED
    /\ s.networkAuth = NetworkAuthOk

IdleInput(s) == s.inputState \in {InputStateReset, InputStateNormal}

\* The early exit of the tick loop applies to the state s.
CutsBatch(s) ==
    s.gGameSpeed = 1 /\ (~IdleInput(s) \/ s.viewportScrolling)

Count(seq, e) == Cardinality({i \in DOMAIN seq : seq[i] = e})

\* Pipeline calls the last Frame Driver call made.
Iterations == frame.completed + frame.earlyReturns

\* ---------------------------------------------------------------------- C1
\* A Frame Driver call of an unpaused, connected, authenticated client whose
\* server tick is d >= 0 ahead of the local tick.
C1_Case ==
    /\ frame.op = "Tick"
    /\ ConnectedClient(frame.pre)
    /\ ~frame.isPaused
    /\ frame.pre.serverTick >= frame.pre.gCurrentTicks

CatchUpDistance == frame.pre.serverTick - frame.pre.gCurrentTicks

\* C1 as stated: such a call executes exactly min(d, 10) logical ticks and
\* the local tick counter ends at localTick + min(d, 10).
C1_AsStated ==
    C1_Case =>
        /\ frame.completed = Min(CatchUpDistance, MaxCatchUp)
        /\ gCurrentTicks
             = frame.pre.gCurrentTicks + Min(CatchUpDistance, MaxCatchUp)

\* C1 amended: such a call executes exactly min(d, 10) logical ticks, unless
\* the speed level is 1 and the input state is non-idle or viewport
\* scrolling is flagged, where the batch stops after its first tick and the
\* call executes min(d, 1) ticks.
C1_CatchUpBound ==
    C1_Case =>
        LET n == IF CutsBatch(frame.pre)
                 THEN Min(CatchUpDistance, 1)
                 ELSE Min(CatchUpDistance, MaxCatchUp)
        IN /\ frame.completed = n
           /\ gCurrentTicks = frame.pre.gCurrentTicks + n

\* A client more than 10 ticks behind ran the clamped batch of 10.
C1_Witness ==
    /\ C1_Case
    /\ CatchUpDistance > MaxCatchUp
    /\ frame.completed = MaxCatchUp
    /\ gCurrentTicks = frame.pre.gCurrentTicks + MaxCatchUp

\* ---------------------------------------------------------------------- C2
\* A Frame Driver call that is not paused and not made by a connected,
\* authenticated client.
C2_Case ==
    /\ frame.op = "Tick"
    /\ ~frame.isPaused
    /\ ~ConnectedClient(frame.pre)
    /\ frame.pre.gGameSpeed >= 1

\* C2 as stated: such a call at speed level s executes exactly 2^(s-1)
\* logical ticks.
C2_AsStated ==
    C2_Case =>
        /\ frame.completed = Pow2(frame.pre.gGameSpeed - 1)
        /\ gCurrentTicks
             = frame.pre.gCurrentTicks + Pow2(frame.pre.gGameSpeed - 1)

\* C2 amended: such a call at speed level s makes exactly 2^(s-1) pipeline
\* calls; with network mode None or Server each of them executes a logical
\* tick, so exactly 2^(s-1) ticks run; in client mode (not yet connected or
\* authenticated) a pipeline call made while the server tick equals the
\* local tick executes nothing.
C2_SpeedMultiplier ==
    C2_Case =>
        /\ frame.numUpdates = Pow2(frame.pre.gGameSpeed - 1)
        /\ Count(log, "UpdateLogic") = Pow2(frame.pre.gGameSpeed - 1)
        /\ Iterations = Pow2(frame.pre.gGameSpeed - 1)
        /\ gCurrentTicks = frame.pre.gCurrentTicks + frame.completed
        /\ frame.pre.networkMode # NETWORK_MODE_CLIENT
             => frame.completed = Pow2(frame.pre.gGameSpeed - 1)

\* A call at speed level 3 without network session ran 4 ticks.
C2_Witness ==
    /\ C2_Case
    /\ frame.pre.networkMode = NETWORK_MODE_NONE
    /\ frame.pre.gGameSpeed = 3
    /\ frame.completed = 4
    /\ gCurrentTicks = frame.pre.gCurrentTicks + 4

\* ---------------------------------------------------------------------- C3
\* A paused Frame Driver call that takes no single step.
C3_Case ==
    /\ frame.op = "Tick"
    /\ frame.isPaused
    /\ ~frame.didRunSingleFrame

\* C3: while paused with no single step taken, a Frame Driver call executes
\* no logical tick and leaves the tick counter and the pause state alone (so
\* the next call is paused as well), but invalidates map animation,
\* processes pending network messages and drains the action queue.
C3_PausedFrame ==
    C3_Case =>
        /\ frame.completed = 0
        /\ Count(log, "UpdateLogic") = 0
        /\ gCurrentTicks = frame.pre.gCurrentTicks
        /\ gSavedAge = frame.pre.gSavedAge
        /\ gGamePaused = frame.pre.gGamePaused
        /\ TickIsPaused(Cur)
        /\ Count(log, "MapAnimationInvalidateAll") = 1
        /\ Count(log, "network_process_pending") = 1
        /\ Count(log, "GameActions::ProcessQueue") = 1
        /\ actionQueue = 0

\* A paused client at speed level 2 with a queued command made a call.
C3_Witness ==
    /\ C3_Case
    /\ frame.pre.networkMode = NETWORK_MODE_CLIENT
    /\ frame.pre.gGameSpeed = 2
    /\ frame.pre.actionQueue > 0
    /\ actionQueue = 0
    /\ gCurrentTicks = frame.pre.gCurrentTicks

\* ---------------------------------------------------------------------- C4
\* A Frame Driver call made while paused, with a single step requested and
\* no network session.
C4_Case ==
    /\ frame.op = "Tick"
    /\ frame.pre.gGamePaused
    /\ frame.pre.gDoSingleUpdate
    /\ frame.pre.networkMode = NETWORK_MODE_NONE

\* C4 as stated: such a call executes exactly 1 logical tick and the game
\* is paused again when it returns.
C4_AsStated ==
    C4_Case =>
        /\ frame.completed = 1
        /\ gGamePaused

\* C4 amended: such a call executes exactly 1 logical tick whatever the
\* speed level, and the game is paused again when it returns unless the
\* title-demo screen flag is set, where it is left running.
C4_SingleStep ==
    C4_Case =>
        /\ frame.completed = 1
        /\ gCurrentTicks = frame.pre.gCurrentTicks + 1
        /\ gGamePaused <=> (SCREEN_FLAGS_TITLE_DEMO \notin gScreenFlags)

\* A single step at speed level 3 ran one tick and paused again.
C4_Witness ==
    /\ C4_Case
    /\ frame.pre.gGameSpeed = 3
    /\ frame.completed = 1
    /\ gGamePaused

\* ---------------------------------------------------------------------- C7
\* A Frame Driver call whose tick loop stopped before numUpdates calls.
BatchCutShort == frame.op = "Tick" /\ Iterations < frame.numUpdates

\* C7 as stated: the early exit never cuts a batch short for a connected,
\* authenticated client catching up, nor at a speed level above 1.
C7_AsStated ==
    BatchCutShort =>
        /\ ~ConnectedClient(frame.pre)
        /\ ~(frame.pre.gGameSpeed > 1)

\* C7 amended: the early exit cuts a batch short exactly when the speed
\* level is 1, the batch holds more than one tick and the input state is
\* non-idle or viewport scrolling is flagged; the batch then stops after
\* its first tick. At speed level 1 only a client's catch-up batch holds
\* more than one tick, so the early exit only ever cuts catch-up batches
\* short, and never a batch at a speed level above 1.
C7_EarlyExit ==
    frame.op = "Tick" =>
        /\ BatchCutShort <=> (CutsBatch(frame.pre) /\ frame.numUpdates > 1)
        /\ BatchCutShort
             => /\ Iterations = 1
                /\ ConnectedClient(frame.pre)
                /\ frame.pre.gGameSpeed = 1

\* A catch-up batch of two at speed level 1 stopped after its first tick.
C7_Witness ==
    /\ BatchCutShort
    /\ ConnectedClient(frame.pre)
    /\ frame.numUpdates = 2
    /\ frame.completed = 1

\* ---------------------------------------------------------------------- C5
\* Pipeline calls of the operation that ran to their end.
CompletedCalls(l) == Count(l, "UpdateLogic") - Count(l, "return")

\* C5: the tick counter moves by exactly one for each pipeline call that
\* runs to its end, is changed by nothing else in the pipeline or the Frame
\* Driver, and never decreases except when InitAll sets it to 0.
C5_TickCounter ==
    [][ /\ frame'.op \in {"Tick", "UpdateLogic"}
           => /\ gCurrentTicks' = gCurrentTicks + CompletedCalls(log')
              /\ Count(log', "gCurrentTicks++") = CompletedCalls(log')
        /\ frame'.op = "InitAll" => gCurrentTicks' = 0
        /\ frame'.op \notin {"Tick", "UpdateLogic", "InitAll"}
           => gCurrentTicks' = gCurrentTicks
        /\ gCurrentTicks' < gCurrentTicks => frame'.op = "InitAll" ]_vars

\* After a re-initialisation, a Frame Driver call ran two ticks and the
\* counter went up by two.
C5_Witness ==
    /\ frame.op = "Tick"
    /\ gSavedAge > gCurrentTicks
    /\ CompletedCalls(log) = 2
    /\ gCurrentTicks = frame.pre.gCurrentTicks + 2

\* ---------------------------------------------------------------------- C6
\* C6: in client role, a pipeline call made while the server tick is not
\* past the local tick performs no logical update: tick counter, date and
\* save-age are unchanged, the action queue is not drained, no hook fires.
C6_AsStated ==
    ( /\ frame.op = "UpdateLogic"
      /\ frame.pre.networkMode = NETWORK_MODE_CLIENT
      /\ frame.pre.serverTick <= frame.pre.gCurrentTicks )
    => /\ frame.completed = 0
       /\ gCurrentTicks = frame.pre.gCurrentTicks
       /\ gSavedAge = frame.pre.gSavedAge
       /\ gDateMonthTicks = frame.pre.gDateMonthTicks
       /\ dateDay = frame.pre.dateDay
       /\ actionQueue = frame.pre.actionQueue
       /\ Count(log, "GameActions::ProcessQueue") = 0
       /\ Count(log, "HOOK_INTERVAL_TICK") = 0
       /\ Count(log, "HOOK_INTERVAL_DAY") = 0

\* ---------------------------------------------------------------------- C8
\* Position of the only occurrence of e in seq.
IndexOf(seq, e) == CHOOSE i \in DOMAIN seq : seq[i] = e

\* C8: in a pipeline call that runs to its end the tick hook fires exactly
\* once, after the tick counter was incremented, and the day hook fires if
\* and only if the day of the logical date after the date update differs
\* from its day at the start of the call; a call that returns early fires
\* no hook.
C8_Hooks ==
    frame.op = "UpdateLogic" =>
        IF frame.completed = 1
        THEN /\ Count(log, "HOOK_INTERVAL_TICK") = 1
             /\ Count(log, "gCurrentTicks++") = 1
             /\ IndexOf(log, "gCurrentTicks++")
                  < IndexOf(log, "HOOK_INTERVAL_TICK")
             /\ gCurrentTicks = frame.pre.gCurrentTicks + 1
             /\ Count(log, "HOOK_INTERVAL_DAY") <= 1
             /\ Count(log, "HOOK_INTERVAL_DAY") = 1
                  <=> dateDay # frame.pre.dateDay
        ELSE /\ Count(log, "HOOK_INTERVAL_TICK") = 0
             /\ Count(log, "HOOK_INTERVAL_DAY") = 0

\* A pipeline call crossed a day boundary and fired both hooks.
C8_Witness ==
    /\ frame.op = "UpdateLogic"
    /\ frame.completed = 1
    /\ dateDay # frame.pre.dateDay
    /\ Count(log, "HOOK_INTERVAL_TICK") = 1
    /\ Count(log, "HOOK_INTERVAL_DAY") = 1

\* ---------------------------------------------------------------------- C9
IsServerSnapshot(x) == x.role = NETWORK_MODE_SERVER

\* The snapshots created in server role, in creation order.
ServerSnapshots == SelectSeq(snapshots, IsServerSnapshot)

LinkedTick(x) == x.links[1][1]

ExactlyOneLink ==
    \A i \in DOMAIN ServerSnapshots : Len(ServerSnapshots[i].links) = 1

\* C9 as stated: every server snapshot is linked to exactly one (tick,
\* seed) pair, and over the whole history the linked ticks are pairwise
\* distinct and non-decreasing in creation order.
C9_AsStated ==
    /\ ExactlyOneLink
    /\ \A i, j \in DOMAIN ServerSnapshots :
          i < j => /\ LinkedTick(ServerSnapshots[i])
                        # LinkedTick(ServerSnapshots[j])
                   /\ LinkedTick(ServerSnapshots[i])
                        <= LinkedTick(ServerSnapshots[j])

\* C9 amended: every server snapshot is linked to exactly one (tick, seed)
\* pair, and among server snapshots with no re-initialisation between them
\* the linked ticks are pairwise distinct and increasing in creation
\* order; InitAll sets the tick counter to 0 and keeps the history, so
\* ticks are linked again after it.
C9_SnapshotLinkage ==
    /\ ExactlyOneLink
    /\ \A i, j \in DOMAIN ServerSnapshots :
          (i < j /\ ServerSnapshots[i].reinits = ServerSnapshots[j].reinits)
          => LinkedTick(ServerSnapshots[i]) < LinkedTick(ServerSnapshots[j])

\* A history with two server snapshots taken before a re-initialisation
\* and two taken after it.
C9_Witness ==
    /\ Cardinality({i \in DOMAIN ServerSnapshots :
                      ServerSnapshots[i].reinits = 0}) >= 2
    /\ Cardinality({i \in DOMAIN ServerSnapshots :
                      ServerSnapshots[i].reinits = 1}) >= 2

\* --------------------------------------------------------------------- C10
\* A Frame Driver or pipeline call in server role.
C10_Case ==
    /\ frame.op \in {"Tick", "UpdateLogic"}
    /\ frame.pre.networkMode = NETWORK_MODE_SERVER

\* Snapshots the last operation added to the store.
NewSnapshots ==
    SubSeq(snapshots, Len(frame.pre.snapshots) + 1, Len(snapshots))

\* The seed after n ticks.
RECURSIVE SeedAfter(_, _)
SeedAfter(seed, n) ==
    IF n = 0 THEN seed ELSE SeedAfter(ScenarioRandNext(seed), n - 1)

\* The k calls that follow every start of a pipeline call in the log.
StartsWith(l, es) ==
    \A i \in DOMAIN l :
        l[i] = "UpdateLogic"
        => /\ i + Len(es) <= Len(l)
           /\ \A k \in DOMAIN es : l[i + k] = es[k]

\* C10: in server role with snapshots enabled every logical tick creates,
\* captures and links exactly one snapshot, to the tick number before the
\* increment and the seed of that moment, and does so before it announces
\* the tick; with snapshots disabled no snapshot is created and the tick is
\* still announced.
C10_ServerSnapshot ==
    C10_Case =>
        /\ Count(log, "UpdateLogic") = frame.completed
        /\ IF snapshotsEnabled
           THEN /\ Len(NewSnapshots) = frame.completed
                /\ Count(log, "CreateSnapshot") = frame.completed
                /\ Count(log, "Capture") = frame.completed
                /\ Count(log, "LinkSnapshot") = frame.completed
                /\ StartsWith(log, << "network_update", "CreateSnapshot",
                                      "Capture", "LinkSnapshot",
                                      "network_send_tick" >>)
                /\ \A k \in DOMAIN NewSnapshots :
                      /\ NewSnapshots[k].captured
                      /\ NewSnapshots[k].links
                           = << << frame.pre.gCurrentTicks + k - 1,
                                   SeedAfter(frame.pre.randSeed, k - 1) >> >>
           ELSE /\ snapshots = frame.pre.snapshots
                /\ Count(log, "CreateSnapshot") = 0
                /\ StartsWith(log, << "network_update",
                                      "network_send_tick" >>)

\* A server with snapshots enabled ran two ticks in one call and added two
\* snapshots.
C10_Witness ==
    /\ C10_Case
    /\ frame.op = "Tick"
    /\ snapshotsEnabled
    /\ frame.completed = 2
    /\ Len(NewSnapshots) = 2
    /\ LinkedTick(NewSnapshots[2]) = frame.pre.gCurrentTicks + 1
    /\ gCurrentTicks = frame.pre.gCurrentTicks + 2

\* --------------------------------------------------------------------- C11
\* A pipeline call in client role whose desynchronisation check failed.
C11_Case ==
    /\ frame.op = "UpdateLogic"
    /\ frame.pre.networkMode = NETWORK_MODE_CLIENT
    /\ frame.desynced

\* Snapshotting is enabled and the connection status is connected.
C11_Diagnose ==
    snapshotsEnabled /\ networkStatus = NETWORK_STATUS_CONNECTED

\* The steps of the pipeline after the network role block, park update and
\* day hook left out.
PipelineSteps ==
    << "DateUpdate", "ScenarioUpdate", "ClimateUpdate", "MapUpdateTiles",
       "MapRemoveProvisionalElements", "MapUpdatePathWideFlags",
       "PeepUpdateAll", "MapRestoreProvisionalElements", "VehicleUpdateAll",
       "UpdateAllMiscEntities", "Ride::UpdateAll", "ResearchUpdate",
       "RideRatingsUpdateAll", "RideMeasurementsUpdate",
       "News::UpdateCurrentItem", "MapAnimationInvalidateAll",
       "VehicleSoundsUpdate", "PeepUpdateCrowdNoise", "ClimateUpdateSound",
       "EditorOpenWindowsForCurrentStep", "GameActions::ProcessQueue",
       "network_process_pending", "network_flush", "gCurrentTicks++",
       "gSavedAge++", "HOOK_INTERVAL_TICK" >>

\* C11: in client role, when the desynchronisation check fails, the client
\* captures a snapshot linked to the current tick and requests the server's
\* snapshot if and only if snapshotting is enabled and the connection
\* status is connected; in every such case the pause state is unchanged,
\* every later step of the pipeline runs once and the tick counter advances
\* by one.
C11_Desync ==
    C11_Case =>
        /\ Count(log, "network_check_desynchronisation") = 1
        /\ Count(log, "CreateSnapshot") = 1 <=> C11_Diagnose
        /\ Count(log, "network_request_gamestate_snapshot") = 1
             <=> C11_Diagnose
        /\ IF C11_Diagnose
           THEN /\ Len(NewSnapshots) = 1
                /\ NewSnapshots[1].captured
                /\ NewSnapshots[1].links
                     = << << frame.pre.gCurrentTicks, frame.pre.randSeed >> >>
                /\ IndexOf(log, "LinkSnapshot")
                     < IndexOf(log, "network_request_gamestate_snapshot")
           ELSE /\ snapshots = frame.pre.snapshots
                /\ Count(log, "Capture") = 0
        /\ gGamePaused = frame.pre.gGamePaused
        /\ frame.completed = 1
        /\ frame.earlyReturns = 0
        /\ \A k \in DOMAIN PipelineSteps :
              /\ Count(log, PipelineSteps[k]) = 1
              /\ IndexOf(log, "network_check_desynchronisation")
                   < IndexOf(log, PipelineSteps[k])
        /\ gCurrentTicks = frame.pre.gCurrentTicks + 1

\* A paused, connected client with snapshots enabled failed the check,
\* took and requested a snapshot, and finished the tick.
C11_Witness ==
    /\ C11_Case
    /\ C11_Diagnose
    /\ gGamePaused
    /\ Len(NewSnapshots) = 1
    /\ Count(log, "network_request_gamestate_snapshot") = 1
    /\ gCurrentTicks = frame.pre.gCurrentTicks + 1

\* A client still connecting, with snapshots enabled, failed the check,
\* took no snapshot and finished the tick.
C11_WitnessConnecting ==
    /\ C11_Case
    /\ snapshotsEnabled
    /\ networkStatus = NETWORK_STATUS_CONNECTING
    /\ snapshots = frame.pre.snapshots
    /\ gCurrentTicks = frame.pre.gCurrentTicks + 1

\* --------------------------------------------------------------------- C12
\* The calls that are the steps of the pipeline: the inbound network sync,
\* the subsystem updates, the drain of the action queue, the outbound
\* flush, the clock advance and the hooks.
C12_StepCalls ==
    { "network_update", "DateUpdate", "ScenarioUpdate", "ClimateUpdate",
      "MapUpdateTiles", "MapRemoveProvisionalElements",
      "MapUpdatePathWideFlags", "PeepUpdateAll",
      "MapRestoreProvisionalElements", "VehicleUpdateAll",
      "UpdateAllMiscEntities", "Ride::UpdateAll", "Park::Update",
      "ResearchUpdate", "RideRatingsUpdateAll", "RideMeasurementsUpdate",
      "News::UpdateCurrentItem", "MapAnimationInvalidateAll",
      "VehicleSoundsUpdate", "PeepUpdateCrowdNoise", "ClimateUpdateSound",
      "GameActions::ProcessQueue", "network_flush", "gCurrentTicks++",
      "gSavedAge++", "HOOK_INTERVAL_TICK", "HOOK_INTERVAL_DAY" }

C12_IsStep(e) == e \in C12_StepCalls

\* The steps in their fixed order, for a tick in or out of the editor that
\* did or did not change the day.
C12_Order(editor, newDay) ==
    << "network_update", "DateUpdate", "ScenarioUpdate", "ClimateUpdate",
       "MapUpdateTiles", "MapRemoveProvisionalElements",
       "MapUpdatePathWideFlags", "PeepUpdateAll",
       "MapRestoreProvisionalElements", "VehicleUpdateAll",
       "UpdateAllMiscEntities", "Ride::UpdateAll" >>
    \o (IF editor THEN << >> ELSE << "Park::Update" >>)
    \o << "ResearchUpdate", "RideRatingsUpdateAll", "RideMeasurementsUpdate",
          "News::UpdateCurrentItem", "MapAnimationInvalidateAll",
          "VehicleSoundsUpdate", "PeepUpdateCrowdNoise", "ClimateUpdateSound",
          "GameActions::ProcessQueue", "network_flush", "gCurrentTicks++",
          "gSavedAge++", "HOOK_INTERVAL_TICK" >>
    \o (IF newDay THEN << "HOOK_INTERVAL_DAY" >> ELSE << >>)

\* C12: a pipeline call that runs to its end makes each step call exactly
\* once and in the fixed order: inbound network sync, date, scenario,
\* climate, map tiles, removal of provisional elements, path-wide flags,
\* guest and staff entities, restoring of provisional elements, vehicles,
\* misc entities, rides, park (outside the editor only), research, ride
\* ratings, ride measurements, news, map animation invalidation, the three
\* sound updates, drain of the action queue, network flush, increment of
\* the tick counter and of the save-age, hooks; nothing but the hooks is
\* called after the clock advance.
C12_FixedOrder ==
    (frame.op = "UpdateLogic" /\ frame.completed = 1) =>
        /\ SelectSeq(log, C12_IsStep)
             = C12_Order(SCREEN_FLAGS_EDITOR \in gScreenFlags,
                         dateDay # frame.pre.dateDay)
        /\ \A i \in DOMAIN log :
              i > IndexOf(log, "gSavedAge++")
              => log[i] \in {"HOOK_INTERVAL_TICK", "HOOK_INTERVAL_DAY"}

\* Outside the editor a server's pipeline call ran to its end on a tick
\* that changed the day: park update and day hook are among the steps.
C12_Witness ==
    /\ frame.op = "UpdateLogic"
    /\ frame.completed = 1
    /\ frame.pre.networkMode = NETWORK_MODE_SERVER
    /\ Count(log, "Park::Update") = 1
    /\ Count(log, "HOOK_INTERVAL_DAY") = 1
    /\ Len(SelectSeq(log, C12_IsStep)) = 27

\* --------------------------------------------------------------------- C13
\* A Frame Driver call of a headless server with pause-if-no-clients
\* configured whose host is the only player.
C13_Case ==
    /\ frame.op = "Tick"
    /\ frame.pre.networkMode = NETWORK_MODE_SERVER
    /\ frame.pre.gOpenRCT2Headless
    /\ frame.pre.PauseServerIfNoClients
    /\ frame.pre.numPlayers = 1

\* C13: a Frame Driver call of a headless server with pause-if-no-clients
\* configured and the host as only player executes no logical tick,
\* whether or not the game is explicitly paused, whatever the speed and
\* whether or not a single step was requested.
C13_ServerPause ==
    C13_Case =>
        /\ frame.isPaused
        /\ ~frame.didRunSingleFrame
        /\ frame.numUpdates = 0
        /\ Count(log, "UpdateLogic") = 0
        /\ frame.completed = 0
        /\ gCurrentTicks = frame.pre.gCurrentTicks
        /\ gSavedAge = frame.pre.gSavedAge
        /\ gGamePaused = frame.pre.gGamePaused

\* Such a server, not explicitly paused, at a speed above 1 and with a
\* single step requested, ran no tick.
C13_Witness ==
    /\ C13_Case
    /\ ~frame.pre.gGamePaused
    /\ frame.pre.gDoSingleUpdate
    /\ frame.pre.gGameSpeed > 1
    /\ frame.requested > 1
    /\ frame.completed = 0

\* --------------------------------------------------------------------- C14
\* The snapshotted world state of s: tick counter, save-age, logical date,
\* seed of the generator, queued commands.
World(s) ==
    [ gCurrentTicks |-> s.gCurrentTicks, gSavedAge |-> s.gSavedAge,
      gDateMonthTicks |-> s.gDateMonthTicks, dateDay |-> s.dateDay,
      randSeed |-> s.randSeed, actionQueue |-> s.actionQueue ]

\* What a pipeline call reads from outside the world state: tick packet,
\* outcome of the desynchronisation check, timing record, wall clock.
ExternalInputs ==
    [ arrival : 0..MaxTimingsServerTick, desynced : BOOLEAN, timings : BOOLEAN,
      now : WallClock ]

\* The state s on another host: another network role, another state of
\* the autosave timer.
OtherHosts(s) ==
    { [s EXCEPT !.networkMode = m, !.gLastAutoSaveUpdate = a] :
        m \in {NETWORK_MODE_NONE, NETWORK_MODE_SERVER, NETWORK_MODE_CLIENT},
        a \in {AUTOSAVE_PAUSE, s.gLastAutoSaveUpdate} }

C15_ProvisionalBracket ==
    frame.op = "UpdateLogic" =>
        IF frame.completed = 1
        THEN /\ Count(log, "MapRemoveProvisionalElements") = 1
             /\ Count(log, "MapRestoreProvisionalElements") = 1
             /\ Count(log, "PeepUpdateAll") = 1
             /\ IndexOf(log, "MapRemoveProvisionalElements")
                  < IndexOf(log, "MapUpdatePathWideFlags")
             /\ IndexOf(log, "MapUpdatePathWideFlags")
                  < IndexOf(log, "PeepUpdateAll")
             /\ IndexOf(log, "MapRestoreProvisionalElements")
                  = IndexOf(log, "PeepUpdateAll") + 1
             /\ IndexOf(log, "MapRestoreProvisionalElements")
                  < IndexOf(log, "VehicleUpdateAll")
             /\ frame.sawProvisional = {}
             /\ frame.provisionalOnMap
        ELSE /\ Count(log, "MapRemoveProvisionalElements") = 0
             /\ Count(log, "MapRestoreProvisionalElements") = 0
             /\ frame.provisionalOnMap

\* A client's pipeline call ran to its end: the elements were removed,
\* the entities updated without them, and the elements are back.
C15_Witness ==
    /\ frame.op = "UpdateLogic"
    /\ frame.pre.networkMode = NETWORK_MODE_CLIENT
    /\ frame.completed = 1
    /\ Count(log, "MapRemoveProvisionalElements") = 1
    /\ Count(log, "PeepUpdateAll") = 1
    /\ randSeed # frame.pre.randSeed
    /\ frame.sawProvisional = {}
    /\ frame.provisionalOnMap

\* --------------------------------------------------------------------- C16
\* C16: after every Frame Driver call the single-step request is cleared;
\* a call takes a single step only when one was requested, and then runs
\* one tick; a request met by a call that is not paused or is networked
\* takes no step: the call runs the ticks it runs without the request.
C16_RequestCleared ==
    frame.op = "Tick" =>
        /\ ~gDoSingleUpdate
        /\ frame.didRunSingleFrame
             => /\ frame.pre.gDoSingleUpdate
                /\ Iterations = 1
                /\ frame.completed = 1
        /\ ( /\ frame.pre.gDoSingleUpdate
             /\ \/ ~frame.isPaused
                \/ frame.pre.networkMode # NETWORK_MODE_NONE )
           => /\ ~frame.didRunSingleFrame
              /\ frame.numUpdates
                   = (IF frame.isPaused THEN 0 ELSE frame.requested)
              /\ gGamePaused = frame.pre.gGamePaused

\* A request met by a call that was not paused, at a speed above 1: the
\* call ran its two ticks and the request is gone.
C16_Witness ==
    /\ frame.op = "Tick"
    /\ frame.pre.gDoSingleUpdate
    /\ ~frame.isPaused
    /\ frame.completed = 2
    /\ ~gDoSingleUpdate

\* A request met by a paused server: no tick, and the request is gone.
C16_WitnessNetworked ==
    /\ frame.op = "Tick"
    /\ frame.pre.gDoSingleUpdate
    /\ frame.isPaused
    /\ frame.pre.networkMode = NETWORK_MODE_SERVER
    /\ frame.completed = 0
    /\ ~gDoSingleUpdate

\* --------------------------------------------------------------------- C17
\* The Frame Driver call was paused and ran no tick.
C17_PausedZero == frame.isPaused /\ frame.numUpdates = 0

Drains == Count(log, "GameActions::ProcessQueue")

\* C17: a Frame Driver call drains the action queue once for each pipeline
\* call that runs to its end, after the last subsystem update of that tick
\* and before its increment of the tick counter, and once more if it is
\* paused with zero ticks; a pipeline call that returns early drains
\* nothing.
C17_Drain ==
    frame.op = "Tick" =>
        /\ Drains = frame.completed + (IF C17_PausedZero THEN 1 ELSE 0)
        /\ Count(log, "return") = frame.earlyReturns
        /\ \A i \in DOMAIN log :
              log[i] = "gCurrentTicks++"
              => /\ i > 4
                 /\ log[i - 3] = "GameActions::ProcessQueue"
                 /\ log[i - 4] = "EditorOpenWindowsForCurrentStep"
        /\ \A i \in DOMAIN log :
              log[i] = "return"
              => /\ log[i - 1] = "network_update"
                 /\ log[i - 2] = "UpdateLogic"
                 /\ i < Len(log)
                 /\ log[i + 1] # "GameActions::ProcessQueue"
        /\ Drains > 0 => actionQueue = 0
        /\ Drains = 0 => actionQueue = frame.pre.actionQueue

\* A Frame Driver call ran two ticks with a command queued: two drains.
C17_Witness ==
    /\ frame.op = "Tick"
    /\ frame.completed = 2
    /\ frame.pre.actionQueue = 1
    /\ Drains = 2
    /\ actionQueue = 0

\* An unpaused client's only pipeline call returned early: the queued
\* command is still queued.
C17_WitnessEarlyReturn ==
    /\ frame.op = "Tick"
    /\ ~frame.isPaused
    /\ frame.earlyReturns = 1
    /\ frame.completed = 0
    /\ frame.pre.actionQueue = 1
    /\ Drains = 0
    /\ actionQueue = 1

\* A paused Frame Driver call with zero ticks drained the queue once.
C17_WitnessPaused ==
    /\ frame.op = "Tick"
    /\ C17_PausedZero
    /\ frame.pre.actionQueue = 1
    /\ Drains = 1
    /\ actionQueue = 0

\* --------------------------------------------------------------------- C18
InEditor == SCREEN_FLAGS_EDITOR \in gScreenFlags

\* C18: a pipeline call that runs to its end updates the park-wide state
\* once, between the ride update and the research update, if the editor
\* flag is not set, and not at all if it is set; in both cases every other
\* step runs once, the tick counter and the save-age advance by one and
\* the tick hook fires.
C18_ParkUpdate ==
    (frame.op = "UpdateLogic" /\ frame.completed = 1) =>
        /\ IF InEditor
           THEN /\ Count(log, "Park::Update") = 0
                /\ frame.parkUpdates = 0
                /\ IndexOf(log, "ResearchUpdate")
                     = IndexOf(log, "Ride::UpdateAll") + 1
           ELSE /\ Count(log, "Park::Update") = 1
                /\ frame.parkUpdates = 1
                /\ IndexOf(log, "Park::Update")
                     = IndexOf(log, "Ride::UpdateAll") + 1
                /\ IndexOf(log, "ResearchUpdate")
                     = IndexOf(log, "Park::Update") + 1
        /\ \A k \in DOMAIN PipelineSteps : Count(log, PipelineSteps[k]) = 1
        /\ gCurrentTicks = frame.pre.gCurrentTicks + 1
        /\ gSavedAge = frame.pre.gSavedAge + 1

\* In the editor a pipeline call ran to its end on a tick that changed the
\* day: no park update, both hooks.
C18_Witness ==
    /\ frame.op = "UpdateLogic"
    /\ frame.completed = 1
    /\ InEditor
    /\ frame.parkUpdates = 0
    /\ Count(log, "Ride::UpdateAll") = 1
    /\ Count(log, "HOOK_INTERVAL_TICK") = 1
    /\ Count(log, "HOOK_INTERVAL_DAY") = 1
    /\ gCurrentTicks = frame.pre.gCurrentTicks + 1

\* --------------------------------------------------------------------- C19
\* Everything of s but the cursor of the timing record.
WithoutCursor(s) == [s EXCEPT !.timingsCurrentIdx = 0]

\* C19: a pipeline call that is given a timing record and runs to its end
\* moves the cursor of the record by one modulo the capacity of the ring;
\* a call that returns early, or is given no record, leaves the cursor
\* alone; the cursor stays in [0, capacity); and a call without a record
\* makes the same calls and ends in the same state, cursor aside, as the
\* call with a record.
C19_TimingCursor ==
    [][ /\ frame'.op = "UpdateLogic"
           => /\ timingsCurrentIdx'
                   = (IF frame'.timings /\ frame'.completed = 1
                      THEN (timingsCurrentIdx + 1)
                             % LOGIC_UPDATE_MEASUREMENTS_COUNT
                      ELSE timingsCurrentIdx)
              /\ frame'.completed = 0 => frame'.earlyReturns = 1
        /\ timingsCurrentIdx' \in 0..(LOGIC_UPDATE_MEASUREMENTS_COUNT - 1)
        /\ \A in2 \in ExternalInputs :
              WithoutCursor(UpdateLogic(Cur, [in2 EXCEPT !.timings = FALSE]))
                = WithoutCursor(UpdateLogic(Cur, [in2 EXCEPT !.timings = TRUE]))
      ]_vars

\* A pipeline call with a timing record ran to its end with the cursor on
\* the last slot of the ring: the cursor is back on slot 0.
C19_Witness ==
    /\ frame.op = "UpdateLogic"
    /\ frame.timings
    /\ frame.completed = 1
    /\ frame.pre.timingsCurrentIdx = LOGIC_UPDATE_MEASUREMENTS_COUNT - 1
    /\ timingsCurrentIdx = 0

\* A client's pipeline call with a timing record returned early: the
\* cursor has not moved.
C19_WitnessEarlyReturn ==
    /\ frame.op = "UpdateLogic"
    /\ frame.timings
    /\ frame.earlyReturns = 1
    /\ frame.pre.timingsCurrentIdx = 1
    /\ timingsCurrentIdx = 1

\* --------------------------------------------------------------------- C20
\* C20: a client whose local tick starts at or below the server tick and
\* whose server tick moves only upward, between and during the ticks of
\* its Frame Driver calls, has its tick counter at or below the server
\* tick after every Frame Driver call.
C20_NeverPastServer ==
    networkMode = NETWORK_MODE_CLIENT => gCurrentTicks <= serverTick

\* At speed level 3 a client that is not authenticated asked for four
\* ticks with the server two ticks ahead: it ran the two and waited.
C20_Witness ==
    /\ frame.op = "Tick"
    /\ ~ConnectedClient(frame.pre)
    /\ frame.requested = 4
    /\ frame.pre.serverTick = frame.pre.gCurrentTicks + 2
    /\ frame.completed = 2
    /\ frame.earlyReturns = 2
    /\ gCurrentTicks = serverTick

\* A connected, authenticated client caught up three ticks while the
\* server moved on by one during the first of them.
C20_WitnessCatchUp ==
    /\ frame.op = "Tick"
    /\ ConnectedClient(frame.pre)
    /\ frame.completed = 3
    /\ serverTick = frame.pre.serverTick + 1
    /\ gCurrentTicks = frame.pre.gCurrentTicks + 3
    /\ gCurrentTicks < serverTick

\* --------------------------------------------------------------------- C21
\* A Frame Driver call in server role.
C21_Case ==
    /\ frame.op = "Tick"
    /\ frame.pre.networkMode = NETWORK_MODE_SERVER

Announces == Count(log, "network_send_tick")

\* C21: a Frame Driver call in server role announces the tick at least
\* once: a call that is not paused runs at least one tick and announces
\* once in each tick it runs, before that tick's increment of the tick
\* counter; a paused call runs no tick and announces exactly once, with
\* the tick counter unchanged.
C21_Announce ==
    C21_Case =>
        /\ Announces >= 1
        /\ IF frame.isPaused
           THEN /\ frame.numUpdates = 0
                /\ frame.completed = 0
                /\ Announces = 1
                /\ gCurrentTicks = frame.pre.gCurrentTicks
           ELSE /\ frame.completed >= 1
                /\ frame.earlyReturns = 0
                /\ Announces = frame.completed
                /\ gCurrentTicks = frame.pre.gCurrentTicks + frame.completed
        /\ \A i \in DOMAIN log :
              log[i] = "UpdateLogic"
              => /\ i + 2 <= Len(log)
                 /\ log[i + 1] = "network_update"
                 /\ log[i + 2] = "network_send_tick"
        /\ \A i \in DOMAIN log :
              log[i] = "gCurrentTicks++"
              => \E j \in 1..(i - 1) :
                    /\ log[j] = "network_send_tick"
                    /\ \A k \in j..i : log[k] # "gSavedAge++"

\* An explicitly paused server with a second player announced its tick
\* once without running a tick.
C21_Witness ==
    /\ C21_Case
    /\ frame.pre.gGamePaused
    /\ frame.pre.numPlayers = 2
    /\ frame.completed = 0
    /\ Announces = 1
    /\ gCurrentTicks > 0

\* A running server at speed level 3 announced each of its four ticks.
C21_WitnessRunning ==
    /\ C21_Case
    /\ ~frame.isPaused
    /\ frame.completed = 4
    /\ Announces = 4

\* --------------------------------------------------------------------- C22
\* The hint path of the last import and its extension.
C22_HintPath == ToStd(importer.hintPath_c)

C22_Extension == GetExtension(C22_HintPath)

\* C22: park_importer_load_from_stream loads the stream as a scenario if
\* and only if the extension of the hint path is ".sc4" or ".sc6", in any
\* case of letters, for every hint path; it is the extension by which
\* ParkImporter::Create chooses the RCT1 importer (".sc4", ".sv4") or the
\* S6 importer.
C22_AsStated ==
    importer.loaded =>
        /\ importer.isScenario
             <=> \/ Equals(C22_Extension, << ".", "s", "c", "4" >>, TRUE)
                 \/ Equals(C22_Extension, << ".", "s", "c", "6" >>, TRUE)
        /\ importer.parkImporter = "CreateS4"
             <=> \/ Equals(C22_Extension, << ".", "s", "c", "4" >>, TRUE)
                 \/ Equals(C22_Extension, << ".", "s", "v", "4" >>, TRUE)

\* What the code does: the stream is loaded as a scenario if and only if
\* the whole hint path is ".sc4" or ".sc6"; the importer is chosen by the
\* extension.
C22_WholePath ==
    importer.loaded =>
        /\ importer.isScenario
             <=> \/ Equals(C22_HintPath, << ".", "s", "c", "4" >>, TRUE)
                 \/ Equals(C22_HintPath, << ".", "s", "c", "6" >>, TRUE)
        /\ importer.parkImporter = "CreateS4"
             <=> ExtensionIsRCT1(C22_Extension)

\* The hint path "a.sc6" was loaded with the S6 importer and not as a
\* scenario.
C22_FailingInput ==
    /\ importer.loaded
    /\ C22_HintPath = << "a", ".", "s", "c", "6" >>
    /\ C22_Extension = << ".", "s", "c", "6" >>
    /\ importer.parkImporter = "CreateS6"
    /\ ~importer.isScenario

TypeOK ==
    /\ gCurrentTicks \in 0..MaxCatchUpAge
    /\ gSavedAge \in 0..MaxCatchUpAge
    /\ serverTick \in 0..MaxCatchUpServerTick

====
